---- MODULE Spec2Model ----
(***************************************************************************)
(* Model of MAIN_1.py: the email router of the film equipment rental       *)
(* auto-reply system (classify_email, the four handlers, handle_email,     *)
(* session_scope, add_sample_data).                                        *)
(*                                                                         *)
(* Text is a sequence of atoms.  An atom is a non-empty run of characters  *)
(* that the code never looks inside: a whitespace run, a category token    *)
(* in some letter case, an equipment name, a "$", an amount, a template    *)
(* field, or filler.  The atoms are chosen so that no two adjacent atoms   *)
(* join into a category token, so a regex search over the text is a        *)
(* search for the leftmost token atom.                                     *)
(*                                                                         *)
(* The completion service, the retrieval index and the database driver     *)
(* are external: each call yields any text of the bounded sets below, or   *)
(* raises.                                                                 *)
(***************************************************************************)
EXTENDS Integers, Sequences, FiniteSets, TLC

VARIABLES
    catalog,    \* rows of the equipment table, in rowid order
    pc,         \* "idle": the caller is between calls; "returned": a call has just ended
    op,         \* the function last called
    arg,        \* its argument and what the external services did during it
    out         \* what it returned or raised, and the calls it made

vars == <<catalog, pc, op, arg, out>>

-----------------------------------------------------------------------------
(* Bounds *)

MaxRawLen == 2      \* atoms in a classification completion
MaxNameLen == 2     \* atoms in an extraction completion
MaxGenLen == 2      \* atoms in a generated reply
MaxChunks == 2      \* chunks the retriever may return

-----------------------------------------------------------------------------
(* Text *)

SeqsUpTo(A, n) == UNION {[1..k -> A] : k \in 0..n}

IsSpace(a) == a \in {" ", "\n"}

RECURSIVE lstrip(_)
lstrip(t) == IF t # <<>> /\ IsSpace(Head(t)) THEN lstrip(Tail(t)) ELSE t

RECURSIVE rstrip(_)
rstrip(t) ==
    IF t # <<>> /\ IsSpace(t[Len(t)]) THEN rstrip(SubSeq(t, 1, Len(t) - 1)) ELSE t

\* str.strip()
strip(t) == rstrip(lstrip(t))

\* str.lower() on one atom
lower_atom(a) ==
    CASE a = "Positive_Review" -> "positive_review"
      [] a = "It is: " -> "it is: "
      [] a = "RED DSMC 2" -> "red dsmc 2"
      [] a = "RED DSMC2" -> "red dsmc2"
      [] a = "DJI Ronin-S" -> "dji ronin-s"
      [] OTHER -> a

\* str.lower()
lower(t) == [i \in DOMAIN t |-> lower_atom(t[i])]

\* the characters of a text, as one string
RECURSIVE Join(_)
Join(t) == IF t = <<>> THEN "" ELSE Head(t) \o Join(Tail(t))

-----------------------------------------------------------------------------
(* External services *)

Returned(t) == [ok |-> TRUE, content |-> t, exc |-> ""]
Failed(e) == [ok |-> FALSE, content |-> <<>>, exc |-> e]

RawAtoms ==
    {" ", "It is: ", "Positive_Review", "negative_review",
     "price_availability_inquiry", "general_inquiry"}

NameAtoms ==
    {" ", "RED DSMC 2", "RED DSMC2", "red dsmc 2", "DJI Ronin-S", "$", "1.0"}

GenAtoms == {" ", "Thank you!"}

CompletionError == "CompletionError: rate limit reached"
DatabaseError == "OperationalError: database is locked"
RetrievalError == "RetrievalError: collection not found"

ClassifyOutcomes ==
    {Returned(t) : t \in SeqsUpTo(RawAtoms, MaxRawLen)} \cup {Failed(CompletionError)}

ExtractOutcomes ==
    {Returned(t) : t \in SeqsUpTo(NameAtoms, MaxNameLen)} \cup {Failed(CompletionError)}

GenOutcomes ==
    {Returned(t) : t \in SeqsUpTo(GenAtoms, MaxGenLen)} \cup {Failed(CompletionError)}

\* what the database driver does during one session: nothing wrong, or the
\* query, the commit or the close raises
DbOutcomes == {"ok", "query", "commit", "close"}

\* the retriever returns some number of chunks, or raises
RetrievalOutcomes ==
    {[ok |-> TRUE, chunks |-> n, exc |-> ""] : n \in 0..MaxChunks}
        \cup {[ok |-> FALSE, chunks |-> 0, exc |-> RetrievalError]}

Emails ==
    { <<"Is the Canon EF 24-70mm lens available for rent?">>,
      <<"What is the price of ", "{lens}", "?">>,
      <<"My config has a ", "{", " in it.">>,
      <<"{email_content}">> }

-----------------------------------------------------------------------------
(* classify_email *)

\* the category tokens, in the order of the regex alternation
Categories ==
    <<"positive_review", "negative_review", "price_availability_inquiry",
      "general_inquiry">>

CategorySet == {Categories[i] : i \in DOMAIN Categories}

\* re.search(r'(positive_review|...)', t): the match, leftmost first
re_search(t) ==
    LET hits == {i \in DOMAIN t : t[i] \in CategorySet}
    IN  IF hits = {} THEN [found |-> FALSE, group |-> ""]
        ELSE [found |-> TRUE,
              group |-> t[CHOOSE i \in hits : \A j \in hits : i <= j]]

\* The human message is an f-string: the email's characters become part of
\* the template text, and the template parser reads its braces.
IsField(a) == a \in {"{lens}", "{email_content}"}
FieldName(a) == IF a = "{lens}" THEN "lens" ELSE "email_content"

\* a lone brace: ChatPromptTemplate.from_messages raises ValueError
malformed_template(email) == \E i \in DOMAIN email : email[i] = "{"

\* the input variables of the classification prompt
input_variables(email) ==
    {FieldName(email[i]) : i \in {j \in DOMAIN email : IsField(email[j])}}

\* chain.invoke({"email_content": ...}) raises KeyError on a variable it is not given
missing_variables(email) == input_variables(email) \ {"email_content"}

\* an exception-swallowing classifier that guesses a category on failure
classify_email_fail_open(email, llm) ==
    IF malformed_template(email) \/ missing_variables(email) # {} \/ ~llm.ok
    THEN [ret |-> "general_inquiry",
          completions |-> IF malformed_template(email) \/ missing_variables(email) # {}
                          THEN 0 ELSE 1]
    ELSE LET match == re_search(lower(strip(llm.content)))
         IN  [ret |-> IF match.found THEN match.group ELSE "error", completions |-> 1]

\* [ret: the value returned, completions: calls made to the completion service]
classify_email(email, llm) ==
    IF malformed_template(email) \/ missing_variables(email) # {}
    THEN [ret |-> "error", completions |-> 0]
    ELSE IF ~llm.ok
    THEN [ret |-> "error", completions |-> 1]
    ELSE LET raw_classification == lower(strip(llm.content))
             match == re_search(raw_classification)
         IN  IF match.found
             THEN [ret |-> match.group, completions |-> 1]
             ELSE [ret |-> "error", completions |-> 1]

-----------------------------------------------------------------------------
(* The equipment table and session_scope *)

Row(id, name, category, price, available) ==
    [id |-> id, name |-> name, category |-> category, price |-> price,
     available |-> available]

\* the Equipment objects built by add_sample_data, before they have an id
\* (prices are whole numbers of dollars held in a Float column)
sample_equipment ==
    << Row(0, "RED DSMC 2", "Cameras", 850, TRUE),
       Row(0, "Canon EF 24-70mm", "Lenses", 50, TRUE),
       Row(0, "DJI Ronin-S", "Stabilizers", 75, FALSE),
       Row(0, "ARRI SkyPanel S60-C", "Lighting", 200, TRUE) >>

NoRow == [some |-> FALSE, row |-> Row(0, "", "", 0, FALSE)]

\* a lookup that ignores letter case
first_by_name_caseless(rows, name) ==
    LET hits == SelectSeq(rows, LAMBDA r : lower_atom(r.name) = lower_atom(name))
    IN  IF hits = <<>> THEN NoRow ELSE [some |-> TRUE, row |-> Head(hits)]

\* session.query(Equipment).filter_by(name=name).first() over the rows the
\* session sees: SQLite compares TEXT byte for byte
first_by_name(rows, name) ==
    LET hits == SelectSeq(rows, LAMBDA r : r.name = name)
    IN  IF hits = <<>> THEN NoRow ELSE [some |-> TRUE, row |-> Head(hits)]

\* session.add(equipment), flushed by the next query or the commit: the row
\* gets the next rowid
session_add(rows, equipment) ==
    Append(rows, [equipment EXCEPT !.id = Len(rows) + 1])

\* str(float) of a whole-valued price: 850.0 -> "850.0"
format_price(price) == ToString(price) \o ".0"

\* A with-block ends with a value or an exception, and with the rows its
\* session holds.  session_scope commits or rolls back, closes, and lets the
\* block's result or an exception through.
\* [raised, exc, ret, catalog: the table afterwards]
session_scope(cat, block, db) ==
    IF block.raised
    THEN [raised |-> TRUE, exc |-> block.exc, ret |-> <<>>, catalog |-> cat]
    ELSE IF db = "commit"
    THEN [raised |-> TRUE, exc |-> DatabaseError, ret |-> <<>>, catalog |-> cat]
    ELSE IF db = "close"
    THEN [raised |-> TRUE, exc |-> DatabaseError, ret |-> <<>>,
          catalog |-> block.rows]
    ELSE [raised |-> FALSE, exc |-> "", ret |-> block.ret, catalog |-> block.rows]

\* a seeding loop that adds every item without looking for an existing row
RECURSIVE seed_from_unchecked(_, _)
seed_from_unchecked(rows, i) ==
    IF i > Len(sample_equipment) THEN rows
    ELSE seed_from_unchecked(session_add(rows, sample_equipment[i]), i + 1)

\* the loop of add_sample_data over the items from index i on
RECURSIVE seed_from(_, _)
seed_from(rows, i) ==
    IF i > Len(sample_equipment) THEN rows
    ELSE LET equipment == sample_equipment[i]
             existing == first_by_name(rows, equipment.name)
         IN  seed_from(IF ~existing.some THEN session_add(rows, equipment) ELSE rows,
                       i + 1)

\* [raised, exc, ret, catalog]
add_sample_data(cat, db) ==
    session_scope(cat,
        IF db = "query"
        THEN [raised |-> TRUE, exc |-> DatabaseError, ret |-> <<>>, rows |-> cat]
        ELSE [raised |-> FALSE, exc |-> "", ret |-> <<>>, rows |-> seed_from(cat, 1)],
        db)

-----------------------------------------------------------------------------
(* The handlers *)

\* A call's result: whether it raised, the exception's text, the value
\* returned, and the calls it made to the completion service, the catalog
\* and the retriever.
Result(raised, exc, ret, completions, lookups, retrievals) ==
    [raised |-> raised, exc |-> exc, ret |-> ret, completions |-> completions,
     lookups |-> lookups, retrievals |-> retrievals]

\* [some: FALSE for None; val: the text]
extract_equipment_name(email, llm) ==
    IF ~llm.ok THEN [some |-> FALSE, val |-> <<>>]
    ELSE [some |-> TRUE, val |-> strip(llm.content)]

\* "if equipment_name:": neither None nor the empty string
truthy(name) == name.some /\ Join(name.val) # ""

FallbackMessage ==
    <<"Thank you for your inquiry. We couldn't find specific information about the equipment you mentioned. Please contact our customer service for further assistance.">>

\* a quote that prints the row's id where its price belongs
quote_message_id(equipment) ==
    <<"The ", equipment.name, " is ",
      IF equipment.available THEN "available" ELSE "not available",
      " for rent at ", "$", format_price(equipment.id), " per day.">>

quote_message(equipment) ==
    <<"The ", equipment.name, " is ",
      IF equipment.available THEN "available" ELSE "not available",
      " for rent at ", "$", format_price(equipment.price), " per day.">>

no_information_message(equipment_name) ==
    <<"We're sorry, but we don't have information about ">> \o equipment_name
        \o <<" in our database. Please contact our customer service for more details.">>

handle_price_availability_inquiry(email, cat, llm, db) ==
    LET equipment_name == extract_equipment_name(email, llm)
    IN  IF truthy(equipment_name)
        THEN LET equipment == first_by_name(cat, Join(equipment_name.val))
                 block ==
                    IF db = "query"
                    THEN [raised |-> TRUE, exc |-> DatabaseError, ret |-> <<>>,
                          rows |-> cat]
                    ELSE [raised |-> FALSE, exc |-> "", rows |-> cat,
                          ret |-> IF equipment.some
                                  THEN quote_message(equipment.row)
                                  ELSE no_information_message(equipment_name.val)]
                 s == session_scope(cat, block, db)
             IN  Result(s.raised, s.exc, s.ret, 1, 1, 0) @@ [catalog |-> s.catalog]
        ELSE Result(FALSE, "", FallbackMessage, 1, 0, 0) @@ [catalog |-> cat]

\* a handler that answers with a canned text when nothing was retrieved
handle_general_inquiry_skip_empty(email, retr, llm) ==
    IF ~retr.ok
    THEN Result(TRUE, retr.exc, <<>>, 0, 0, 1) @@ [context |-> -1]
    ELSE IF retr.chunks = 0
    THEN Result(FALSE, "", <<"We have no information on that.">>, 0, 0, 1)
            @@ [context |-> -1]
    ELSE IF ~llm.ok
    THEN Result(TRUE, llm.exc, <<>>, 1, 0, 1) @@ [context |-> retr.chunks]
    ELSE Result(FALSE, "", llm.content, 1, 0, 1) @@ [context |-> retr.chunks]

\* RetrievalQA "stuff": the retrieved chunks go into one prompt, one
\* completion call, whose text is returned as it is.
\* context: the chunks put in the prompt (-1 when no prompt was built)
handle_general_inquiry(email, retr, llm) ==
    IF ~retr.ok
    THEN Result(TRUE, retr.exc, <<>>, 0, 0, 1) @@ [context |-> -1]
    ELSE IF ~llm.ok
    THEN Result(TRUE, llm.exc, <<>>, 1, 0, 1) @@ [context |-> retr.chunks]
    ELSE Result(FALSE, "", llm.content, 1, 0, 1) @@ [context |-> retr.chunks]

handle_positive_review(email, llm) ==
    IF ~llm.ok THEN Result(TRUE, llm.exc, <<>>, 1, 0, 0)
    ELSE Result(FALSE, "", strip(llm.content), 1, 0, 0)

\* the negative_review branch, written out inside handle_email
negative_review_branch(email, llm) ==
    IF ~llm.ok THEN Result(TRUE, llm.exc, <<>>, 1, 0, 0)
    ELSE Result(FALSE, "", llm.content, 1, 0, 0)

-----------------------------------------------------------------------------
(* handle_email *)

ForwardMessage ==
    <<"This email requires further evaluation and has been forwarded to our customer service team. They will contact you shortly.">>

ApologyMessage ==
    <<"We encountered an error processing your email. A customer service representative will contact you shortly.">>

\* a service the call never reached
NotCalled == [ok |-> FALSE, content |-> <<>>, exc |-> "not called"]
NotRetrieved == [ok |-> FALSE, chunks |-> 0, exc |-> "not called"]

\* What handle_email met at each call site.
Env(cls, gen, ext, db, retr) ==
    [cls |-> cls, gen |-> gen, ext |-> ext, db |-> db, retr |-> retr]

\* the outcomes of the calls made after classify_email returned category
EnvsAfter(cls, category) ==
    CASE category \in {"positive_review", "negative_review"} ->
            {Env(cls, gen, NotCalled, "ok", NotRetrieved) : gen \in GenOutcomes}
      [] category = "price_availability_inquiry" ->
            {Env(cls, NotCalled, ext, db, NotRetrieved) :
                ext \in ExtractOutcomes, db \in DbOutcomes}
      [] category = "general_inquiry" ->
            {Env(cls, gen, NotCalled, "ok", retr) :
                gen \in GenOutcomes, retr \in RetrievalOutcomes}
      [] OTHER -> {Env(cls, NotCalled, NotCalled, "ok", NotRetrieved)}

\* The outcome of a call of handle_email, or of its try block.
\* classified: what classify_email returned; handler: the branch taken;
\* caught: the text of the exception the except clause caught;
\* catalog: the equipment table afterwards
Outcome(raised, exc, category, response, classified, handler, c, h, after) ==
    [raised |-> raised, exc |-> exc, category |-> category, response |-> response,
     classified |-> classified, handler |-> handler, caught |-> "",
     completions |-> c.completions + h.completions,
     lookups |-> h.lookups, retrievals |-> h.retrievals, catalog |-> after]

NoCalls == Result(FALSE, "", <<>>, 0, 0, 0)

\* a catch-all that reports a hard failure instead of forwarding
catch_all_as_error(c, cat) ==
    Outcome(FALSE, "", "error", ApologyMessage, c.ret, "none", c, NoCalls, cat)

\* the else branch of handle_email (lines 202-203)
catch_all(c, cat) ==
    Outcome(FALSE, "", "forward_to_customer_service", ForwardMessage,
            c.ret, "none", c, NoCalls, cat)

\* the try block of handle_email (lines 184-203)
try_block(email, cat, env) ==
    LET c == classify_email(email, env.cls)
        category == c.ret
        Dispatch(handler, h, after) ==
            IF h.raised
            THEN Outcome(TRUE, h.exc, "", <<>>, category, handler, c, h, after)
            ELSE Outcome(FALSE, "", category, h.ret, category, handler, c, h, after)
    IN  IF category = "positive_review"
        THEN Dispatch("handle_positive_review",
                      handle_positive_review(email, env.gen), cat)
        ELSE IF category = "negative_review"
        THEN Dispatch("negative_review", negative_review_branch(email, env.gen), cat)
        ELSE IF category = "price_availability_inquiry"
        THEN LET h == handle_price_availability_inquiry(email, cat, env.ext, env.db)
             IN  Dispatch("handle_price_availability_inquiry", h, h.catalog)
        ELSE IF category = "general_inquiry"
        THEN Dispatch("handle_general_inquiry",
                      handle_general_inquiry(email, env.retr, env.gen), cat)
        ELSE catch_all(c, cat)

\* an except clause that puts the exception's text in the reply
except_clause_leaky(t) ==
    [t EXCEPT !.raised = FALSE, !.exc = "", !.caught = t.exc,
              !.category = "error",
              !.response = <<"We encountered an error processing your email: ", t.exc>>]

\* the except clause (lines 204-206)
except_clause(t) ==
    [t EXCEPT !.raised = FALSE, !.exc = "", !.caught = t.exc,
              !.category = "error", !.response = ApologyMessage]

\* a router without its try/except
handle_email_no_except(email, cat, env) == try_block(email, cat, env)

handle_email(email, cat, env) ==
    LET t == try_block(email, cat, env)
    IN  IF t.raised THEN except_clause(t) ELSE t

-----------------------------------------------------------------------------
(* The program *)

NoArg == [email |-> <<>>]
NoOut == [raised |-> FALSE]

Init ==
    /\ catalog = <<>>
    /\ pc = "idle"
    /\ op = "none"
    /\ arg = NoArg
    /\ out = NoOut

\* main(), line 224, or any later call
AddSampleData ==
    /\ pc = "idle"
    /\ \E db \in DbOutcomes :
        LET r == add_sample_data(catalog, db)
        IN  /\ catalog' = r.catalog
            /\ op' = "add_sample_data"
            /\ arg' = [email |-> <<>>, db |-> db, before |-> catalog]
            /\ out' = [raised |-> r.raised, exc |-> r.exc]
    /\ pc' = "returned"

\* main(), line 239
HandleEmail ==
    /\ pc = "idle"
    /\ \E email \in Emails, cls \in ClassifyOutcomes :
        \E env \in EnvsAfter(cls, classify_email(email, cls).ret) :
            LET r == handle_email(email, catalog, env)
            IN  /\ catalog' = r.catalog
                /\ op' = "handle_email"
                /\ arg' = [email |-> email, env |-> env, before |-> catalog]
                /\ out' = r
    /\ pc' = "returned"

\* a direct call of classify_email
ClassifyEmail ==
    /\ pc = "idle"
    /\ \E email \in Emails, llm \in ClassifyOutcomes :
        LET r == classify_email(email, llm)
        IN  /\ op' = "classify_email"
            /\ arg' = [email |-> email, cls |-> llm]
            /\ out' = [raised |-> FALSE, ret |-> r.ret, completions |-> r.completions]
    /\ pc' = "returned"
    /\ UNCHANGED catalog

\* a direct call of handle_price_availability_inquiry
HandlePriceAvailabilityInquiry ==
    /\ pc = "idle"
    /\ \E email \in Emails, ext \in ExtractOutcomes, db \in DbOutcomes :
        LET r == handle_price_availability_inquiry(email, catalog, ext, db)
        IN  /\ catalog' = r.catalog
            /\ op' = "handle_price_availability_inquiry"
            /\ arg' = [email |-> email, ext |-> ext, db |-> db, before |-> catalog]
            /\ out' = r
    /\ pc' = "returned"

\* a direct call of handle_general_inquiry
HandleGeneralInquiry ==
    /\ pc = "idle"
    /\ \E email \in Emails, retr \in RetrievalOutcomes, gen \in GenOutcomes :
        /\ op' = "handle_general_inquiry"
        /\ arg' = [email |-> email, retr |-> retr, gen |-> gen]
        /\ out' = handle_general_inquiry(email, retr, gen)
    /\ pc' = "returned"
    /\ UNCHANGED catalog

\* the caller takes the result and goes on to its next call
Resume ==
    /\ pc = "returned"
    /\ pc' = "idle"
    /\ op' = "none"
    /\ arg' = NoArg
    /\ out' = NoOut
    /\ UNCHANGED catalog

Next ==
    \/ AddSampleData
    \/ HandleEmail
    \/ ClassifyEmail
    \/ HandlePriceAvailabilityInquiry
    \/ HandleGeneralInquiry
    \/ Resume

Spec == Init /\ [][Next]_vars

-----------------------------------------------------------------------------
(* Properties of handle_email *)

Routed == pc = "returned" /\ op = "handle_email"

OutcomeCategories == CategorySet \cup {"error", "forward_to_customer_service"}

ExceptionTexts == {CompletionError, DatabaseError, RetrievalError}

\* C1: for every email and every behaviour of the completion service, the
\* retriever and the catalog, handle_email returns a (category, text) pair
\* and never raises; the category is one of the four tokens, error or
\* forward_to_customer_service, and one of the four tokens only when
\* classify_email returned exactly that token.
C1_RouterTotal ==
    Routed =>
        /\ ~out.raised
        /\ out.category \in OutcomeCategories
        /\ out.response \in Seq(STRING)
        /\ out.category \in CategorySet =>
                out.category = classify_email(arg.email, arg.env.cls).ret

\* a handler raised and the router still returned a pair
C1_Witness ==
    /\ Routed
    /\ classify_email(arg.email, arg.env.cls).ret = "general_inquiry"
    /\ ~arg.env.retr.ok
    /\ ~out.raised
    /\ out.category = "error"

\* C2 as stated: when the completion service raises during classification,
\* the router returns category error with the apology message and does not
\* raise.
C2_ClassifyFailureGivesError ==
    (Routed /\ ~arg.env.cls.ok) =>
        /\ ~out.raised
        /\ out.category = "error"
        /\ out.response = ApologyMessage

\* C2 amended: when the completion service raises during classification,
\* the router does not raise and returns category forward_to_customer_service
\* with the forwarding message, having called no handler.
C2_ClassifyFailureForwards ==
    (Routed /\ ~arg.env.cls.ok) =>
        /\ ~out.raised
        /\ out.category = "forward_to_customer_service"
        /\ out.response = ForwardMessage
        /\ out.handler = "none"

\* the completion service was called for the classification and raised
C2_Witness ==
    /\ Routed
    /\ ~arg.env.cls.ok
    /\ out.completions = 1
    /\ out.category = "forward_to_customer_service"

\* C3: when classify_email yields error (or anything outside the four
\* tokens), handle_email calls no handler and returns
\* forward_to_customer_service with the forwarding message; the hard-failure
\* outcome (error with the apology) is a different pair and is produced only
\* when an exception reached the except clause.
C3_CatchAllForwards ==
    Routed =>
        /\ classify_email(arg.email, arg.env.cls).ret \notin CategorySet =>
                /\ out.handler = "none"
                /\ out.lookups = 0
                /\ out.retrievals = 0
                /\ out.completions = classify_email(arg.email, arg.env.cls).completions
                /\ out.category = "forward_to_customer_service"
                /\ out.response = ForwardMessage
        /\ out.category = "forward_to_customer_service" =>
                out.response # ApologyMessage
        /\ out.category = "error" =>
                /\ out.caught \in ExceptionTexts
                /\ try_block(arg.email, arg.before, arg.env).raised
                /\ classify_email(arg.email, arg.env.cls).ret \in CategorySet

\* the model answered with text that holds no token
C3_Witness ==
    /\ Routed
    /\ arg.env.cls = Returned(<<"It is: ", " ">>)
    /\ out.category = "forward_to_customer_service"

\* C4: if the handler selected after a successful classification raises,
\* handle_email returns category error with the apology, the same text for
\* every exception, holding none of the exception's text.
C4_HandlerFailureGivesApology ==
    (Routed /\ try_block(arg.email, arg.before, arg.env).raised) =>
        /\ ~out.raised
        /\ out.category = "error"
        /\ out.response = ApologyMessage
        /\ \A i \in DOMAIN out.response :
                /\ out.response[i] \notin ExceptionTexts
                /\ out.response[i] # out.caught

\* the catalog's commit failed inside session_scope, on a looked-up name
C4_Witness ==
    /\ Routed
    /\ out.handler = "handle_price_availability_inquiry"
    /\ arg.env.db = "commit"
    /\ out.lookups = 1
    /\ out.caught = DatabaseError
    /\ out.category = "error"

-----------------------------------------------------------------------------
(* Properties of classify_email *)

Classified == pc = "returned" /\ op = "classify_email"

\* the leftmost category token of a text, "" when it holds none
LeftmostToken(t) ==
    LET hits == {i \in DOMAIN t : t[i] \in CategorySet}
    IN  IF hits = {} THEN ""
        ELSE t[CHOOSE i \in hits : \A j \in hits : i <= j]

\* C5: classify_email makes exactly one completion call and is fail-closed:
\* it returns a category token only if the trimmed, lower-cased model output
\* holds one, and then the leftmost one; if none occurs or the call raises
\* it returns error; it never raises.
C5_ClassifierFailClosed ==
    Classified =>
        LET token == IF arg.cls.ok THEN LeftmostToken(lower(strip(arg.cls.content)))
                     ELSE ""
        IN  /\ ~out.raised
            /\ out.completions = 1
            /\ out.ret = IF token # "" THEN token ELSE "error"

\* C5 without the call count, on every email: a token is returned only if
\* the model's trimmed, lower-cased output holds it leftmost, and the
\* classifier never raises.
C5_TokenOnlyFromOutput ==
    Classified =>
        /\ ~out.raised
        /\ out.completions <= 1
        /\ out.ret \in CategorySet \cup {"error"}
        /\ out.ret \in CategorySet =>
                /\ arg.cls.ok
                /\ out.completions = 1
                /\ out.ret = LeftmostToken(lower(strip(arg.cls.content)))

-----------------------------------------------------------------------------
(* Properties of handle_price_availability_inquiry *)

PriceAsked == pc = "returned" /\ op = "handle_price_availability_inquiry"

\* the rows of a table whose name is n, character for character
RowsNamed(rows, n) == {i \in DOMAIN rows : rows[i].name = n}

\* the rows a completion selects: those named by its trimmed text
Selected(ext, rows) ==
    IF ext.ok /\ Join(strip(ext.content)) # ""
    THEN RowsNamed(rows, Join(strip(ext.content)))
    ELSE {}

ExpectedQuote(r) ==
    <<"The ", r.name, " is ", IF r.available THEN "available" ELSE "not available",
      " for rent at ", "$", ToString(r.price) \o ".0", " per day.">>

ExpectedApology(name) ==
    <<"We're sorry, but we don't have information about ">> \o name
        \o <<" in our database. Please contact our customer service for more details.">>

\* C6 as stated: for every outcome of the extraction and every catalog, the
\* handler returns the generic fallback (no lookup, no second
\* classification) when extraction yielded null, the quote built from the
\* record whose name equals the extracted name, and the apology naming the
\* extracted name when no record's name equals it.
C6_PriceReplyByExactName ==
    (PriceAsked /\ arg.db = "ok") =>
        LET name == strip(arg.ext.content)
            rows == RowsNamed(arg.before, Join(name))
        IN  /\ ~out.raised
            /\ out.completions = 1
            /\ ~arg.ext.ok =>
                    out.ret = FallbackMessage /\ out.lookups = 0
            /\ (arg.ext.ok /\ rows # {}) =>
                    \E i \in rows : out.ret = ExpectedQuote(arg.before[i])
            /\ (arg.ext.ok /\ rows = {}) =>
                    out.ret = ExpectedApology(name)

\* C6 amended: as C6, except that an extraction yielding the empty string
\* (a blank completion) gets the generic fallback with no lookup, like null;
\* the apology is returned when the extracted name is non-empty and no
\* record's name equals it.
C6_PriceReplyByExactNonEmptyName ==
    (PriceAsked /\ arg.db = "ok") =>
        LET name == strip(arg.ext.content)
            rows == RowsNamed(arg.before, Join(name))
        IN  /\ ~out.raised
            /\ out.completions = 1
            /\ (~arg.ext.ok \/ Join(name) = "") =>
                    out.ret = FallbackMessage /\ out.lookups = 0
            /\ (arg.ext.ok /\ rows # {}) =>
                    /\ out.lookups = 1
                    /\ \E i \in rows : out.ret = ExpectedQuote(arg.before[i])
            /\ (arg.ext.ok /\ Join(name) # "" /\ rows = {}) =>
                    /\ out.lookups = 1
                    /\ out.ret = ExpectedApology(name)

\* the seeded table holds "RED DSMC 2"; the model extracted it in lower case
C6_Witness ==
    /\ PriceAsked
    /\ arg.db = "ok"
    /\ RowsNamed(arg.before, "RED DSMC 2") # {}
    /\ strip(arg.ext.content) = <<"red dsmc 2">>
    /\ out.ret = ExpectedApology(<<"red dsmc 2">>)

\* the atoms that are amounts of money, as str(float) writes them
AmountAtoms == {ToString(n) \o ".0" : n \in 0..999}

\* the prices a text states: the amounts that follow a "$"
StatedPrices(t) ==
    {t[i + 1] : i \in {j \in 1..(Len(t) - 1) : t[j] = "$" /\ t[j + 1] \in AmountAtoms}}

\* the availability words of a text
StatedAvailability(t) == {t[i] : i \in DOMAIN t} \cap {"available", "not available"}

\* C7 as stated: the completion's output only selects the record: any price
\* in the response is the price field of a catalog record, and two runs on
\* the same catalog whose outputs select the same record, or both none,
\* state the same price (every price this run states, the other run states
\* too; the same holds from the other run's state).
C7_ModelNeverStatesPrice ==
    (PriceAsked /\ ~out.raised) =>
        /\ StatedPrices(out.ret) \subseteq
                {ToString(arg.before[i].price) \o ".0" : i \in DOMAIN arg.before}
        /\ \A other \in ExtractOutcomes :
                Selected(other, arg.before) = Selected(arg.ext, arg.before) =>
                    StatedPrices(out.ret) \subseteq
                        StatedPrices(handle_price_availability_inquiry(
                                        arg.email, arg.before, other, "ok").ret)

\* C7 amended: when the completion's output selects a record, the price and
\* availability in the response are that record's fields and two runs
\* selecting the same record return the same response; when it selects
\* none, the response echoes the extracted text, and any price in the
\* response is one that text states.
C7_PriceFromRecordOrEchoedName ==
    (PriceAsked /\ ~out.raised) =>
        LET sel == Selected(arg.ext, arg.before)
        IN  /\ sel # {} =>
                /\ StatedPrices(out.ret) =
                        {ToString(arg.before[i].price) \o ".0" : i \in sel}
                /\ StatedAvailability(out.ret) =
                        {IF arg.before[i].available THEN "available"
                         ELSE "not available" : i \in sel}
                /\ \A other \in ExtractOutcomes :
                        Selected(other, arg.before) = sel =>
                            handle_price_availability_inquiry(
                                arg.email, arg.before, other, "ok").ret = out.ret
            /\ sel = {} =>
                StatedPrices(out.ret) \subseteq StatedPrices(strip(arg.ext.content))

\* the model's text selected the row of the DJI Ronin-S, which is not available
C7_Witness ==
    /\ PriceAsked
    /\ ~out.raised
    /\ arg.ext.content = <<" ", "DJI Ronin-S">>
    /\ Selected(arg.ext, arg.before) # {}
    /\ StatedPrices(out.ret) = {"75.0"}
    /\ StatedAvailability(out.ret) = {"not available"}

-----------------------------------------------------------------------------
(* Properties of the catalog *)

SampleNames == {sample_equipment[i].name : i \in DOMAIN sample_equipment}

Seeded == pc = "returned" /\ op = "add_sample_data"

\* C8: from an empty catalog, after any sequence of add_sample_data and
\* handle_email calls, the catalog holds one record per distinct name: a
\* second seeding adds no record, and no routing call adds, changes or
\* deletes a record.
C8_OneRecordPerName ==
    /\ \A i, j \in DOMAIN catalog : catalog[i].name = catalog[j].name => i = j
    /\ \A i, j \in DOMAIN catalog : catalog[i].id = catalog[j].id => i = j
    /\ (Seeded /\ ~out.raised) =>
            \A n \in SampleNames : Cardinality(RowsNamed(catalog, n)) = 1
    /\ (Seeded /\ SampleNames \subseteq {arg.before[i].name : i \in DOMAIN arg.before}) =>
            catalog = arg.before
    /\ Routed => catalog = arg.before

\* the list was seeded a second time, and committed
C8_Witness ==
    /\ Seeded
    /\ arg.db = "ok"
    /\ ~out.raised
    /\ Len(arg.before) = Len(sample_equipment)
    /\ catalog = arg.before

-----------------------------------------------------------------------------
(* Properties of handle_general_inquiry and of the review branches *)

GeneralAsked == pc = "returned" /\ op = "handle_general_inquiry"

\* C9 as stated: when the index returns zero chunks, handle_general_inquiry
\* still runs the single generation call with an empty context, does not
\* raise, and returns a non-empty string.
C9_ZeroChunksNonEmptyAnswer ==
    (GeneralAsked /\ arg.retr.ok /\ arg.retr.chunks = 0) =>
        /\ out.completions = 1
        /\ out.context = 0
        /\ ~out.raised
        /\ Join(out.ret) # ""

\* C9 amended: when the index returns zero chunks, handle_general_inquiry
\* still runs the single generation call with an empty context and returns
\* that call's text unchanged; it raises exactly when that call raises, and
\* its answer is non-empty exactly when the generated text is.
C9_ZeroChunksStillGenerates ==
    (GeneralAsked /\ arg.retr.ok /\ arg.retr.chunks = 0) =>
        /\ out.completions = 1
        /\ out.retrievals = 1
        /\ out.context = 0
        /\ out.raised = ~arg.gen.ok
        /\ arg.gen.ok => out.ret = arg.gen.content
        /\ ~arg.gen.ok => out.exc = arg.gen.exc

\* nothing was retrieved and the generated text came back
C9_Witness ==
    /\ GeneralAsked
    /\ arg.retr.ok
    /\ arg.retr.chunks = 0
    /\ arg.gen = Returned(<<"Thank you!", " ">>)
    /\ out.ret = <<"Thank you!", " ">>

\* C10: for an email classified positive_review or negative_review the
\* response comes from exactly one completion call after the
\* classification, with no catalog lookup and no retrieval, and the text
\* returned is that completion's output with leading and trailing
\* whitespace trimmed, for both categories alike.
C10_ReviewReplyTrimmed ==
    (Routed /\ out.category \in {"positive_review", "negative_review"}) =>
        /\ out.completions = 2
        /\ out.lookups = 0
        /\ out.retrievals = 0
        /\ out.response = strip(arg.env.gen.content)

\* C10 for positive_review alone
C10_PositiveReplyTrimmed ==
    (Routed /\ out.category = "positive_review") =>
        /\ out.completions = 2
        /\ out.lookups = 0
        /\ out.retrievals = 0
        /\ out.response = strip(arg.env.gen.content)

====
